---- MODULE Spec2Model ----
(***************************************************************************)
(* Surface-growth notebook (Edwards-Wilkinson / Kardar-Parisi-Zhang).      *)
(*                                                                         *)
(* The notebook keeps its state in module-level names: the parameters      *)
(* L, T, v, l, the two seeds, the history array film (T x L x L), the      *)
(* noise array noise (T x L x L) and the 2-D array choice.  Every code     *)
(* cell is a handler that runs to completion; the loops of the four        *)
(* simulation cells are modelled one iteration per action, with i the      *)
(* loop variable.                                                          *)
(*                                                                         *)
(* Heights are real numbers in the notebook.  The model computes on an     *)
(* integer lattice with exact arithmetic: heights are integers, v is an    *)
(* integer and l a multiple of 8, so that v*laplace(h) and                 *)
(* (l/2)*(gx^2+gy^2) are computed without rounding (np.gradient halves     *)
(* central differences, so gx^2+gy^2 is a multiple of 1/4).                *)
(***************************************************************************)
EXTENDS Integers, Sequences, FiniteSets, TLC

VARIABLES L, T, v, l, rngField, rngNoise, rngChoice,
          cell, i, film, noise, choice, prevFilm,
          samples, all_rolls, rerolled, s, results,
          particle_position, particle_velocity, charge, executions

vars == <<L, T, v, l, rngField, rngNoise, rngChoice,
          cell, i, film, noise, choice, prevFilm,
          samples, all_rolls, rerolled, s, results,
          particle_position, particle_velocity, charge, executions>>

params == <<L, T, v, l, rngField, rngNoise, rngChoice>>

\* the names of the Monte Carlo notebook: the dice cells and the molecular
\* dynamics cells (executions counts the runs of the time-step cell)
diceState == <<samples, all_rolls, rerolled, s, results>>
particleState == <<particle_position, particle_velocity, charge, executions>>
monteCarlo == <<diceState, particleState>>

(***************************************************************************)
(* Bounds of the model.                                                    *)
(***************************************************************************)
MaxL == 4
MaxT == 3
MaxBumps == 1
MaxNoiseLen == 9
MaxChoiceLen == 16
\* numeric range of the model: a step is computed from heights up to this size
MaxAbsHeight == 1500

\* starting heights: a base level plus bumps (uniform(0, max_starting_height))
BaseSet == {0, 5}
BumpSet == {0, 1, 5}
\* surface tension and non-linear coefficient (l is kept a multiple of 8)
VSet == {0, 1}
LambdaSet == {0, 8}

Cells(n) == (0 .. n - 1) \X (0 .. n - 1)

Zero(n) == [p \in Cells(n) |-> 0]

RECURSIVE SumUpTo(_, _, _)
SumUpTo(F, n, k) ==
    IF k = 0 THEN 0
    ELSE F[<<(k - 1) \div n, (k - 1) % n>>] + SumUpTo(F, n, k - 1)

\* np.sum over one L x L slice
Mass(F, n) == SumUpTo(F, n, n * n)

(***************************************************************************)
(* scipy.ndimage.laplace(input) with its default mode='reflect': the       *)
(* second difference [1, -2, 1] along each axis, the input extended by     *)
(* reflecting about the edge of the last cell (d c b a | a b c d | d c b   *)
(* a), so the neighbour outside the grid is the edge cell itself.          *)
(***************************************************************************)
ReflectWrap(k, n) == (k + n) % n

Reflect(k, n) == IF k < 0 THEN -k - 1 ELSE IF k >= n THEN 2 * n - 1 - k ELSE k

LaplaceNoCentre(F, n) ==
    [p \in Cells(n) |->
        F[<<Reflect(p[1] + 1, n), p[2]>>] + F[<<Reflect(p[1] - 1, n), p[2]>>]
      + F[<<p[1], Reflect(p[2] + 1, n)>>] + F[<<p[1], Reflect(p[2] - 1, n)>>]
      - 3 * F[p]]

\* the opposite sign convention: centre minus neighbours
LaplaceSignFlipped(F, n) ==
    [p \in Cells(n) |->
        4 * F[p]
      - F[<<Reflect(p[1] + 1, n), p[2]>>] - F[<<Reflect(p[1] - 1, n), p[2]>>]
      - F[<<p[1], Reflect(p[2] + 1, n)>>] - F[<<p[1], Reflect(p[2] - 1, n)>>]]

\* mode='constant': cells outside the grid read as 0
LaplaceConstant(F, n) ==
    [p \in Cells(n) |->
        (IF p[1] + 1 < n THEN F[<<p[1] + 1, p[2]>>] ELSE 0)
      + (IF p[1] - 1 >= 0 THEN F[<<p[1] - 1, p[2]>>] ELSE 0)
      + (IF p[2] + 1 < n THEN F[<<p[1], p[2] + 1>>] ELSE 0)
      + (IF p[2] - 1 >= 0 THEN F[<<p[1], p[2] - 1>>] ELSE 0)
      - 4 * F[p]]

laplace(F, n) ==
    [p \in Cells(n) |->
        F[<<Reflect(p[1] + 1, n), p[2]>>] + F[<<Reflect(p[1] - 1, n), p[2]>>]
      + F[<<p[1], Reflect(p[2] + 1, n)>>] + F[<<p[1], Reflect(p[2] - 1, n)>>]
      - 4 * F[p]]

(***************************************************************************)
(* np.gradient(f) with unit spacing and edge_order=1: central differences  *)
(* (f[k+1]-f[k-1])/2 in the interior, one-sided first differences at the   *)
(* two ends.  gradient2 is twice the gradient, so it stays an integer.     *)
(***************************************************************************)
Shift(p, axis, d) == IF axis = 1 THEN <<p[1] + d, p[2]>> ELSE <<p[1], p[2] + d>>

gradient2(F, n, axis) ==
    [p \in Cells(n) |->
        IF p[axis] = 0 THEN 2 * (F[Shift(p, axis, 1)] - F[p])
        ELSE IF p[axis] = n - 1 THEN 2 * (F[p] - F[Shift(p, axis, -1)])
        ELSE F[Shift(p, axis, 1)] - F[Shift(p, axis, -1)]]

\* the difference of the two squares instead of their sum
g2_film4_Difference(F, n) ==
    [p \in Cells(n) |->
        gradient2(F, n, 1)[p] * gradient2(F, n, 1)[p]
      - gradient2(F, n, 2)[p] * gradient2(F, n, 2)[p]]

\* 4 * (g_film[0]**2 + g_film[1]**2)
g2_film4(F, n) ==
    [p \in Cells(n) |->
        gradient2(F, n, 1)[p] * gradient2(F, n, 1)[p]
      + gradient2(F, n, 2)[p] * gradient2(F, n, 2)[p]]

\* d_film of the EW cell without noise: v*laplace(film[i-1])
d_film_EW(F, n, vv) == [p \in Cells(n) |-> vv * laplace(F, n)[p]]

\* l*g2_film, as in the equation of the markdown, instead of l/2*g2_film
d_film_KPZ_FullLambda(F, n, vv, ll) ==
    [p \in Cells(n) |-> vv * laplace(F, n)[p] + (ll \div 4) * g2_film4(F, n)[p]]

\* d_film of the KPZ cell: v*l_film + l/2*g2_film, with g2_film = g2_film4/4
\* (l is a multiple of 8, so l/8 is exact)
d_film_KPZ(F, n, vv, ll) ==
    [p \in Cells(n) |-> vv * laplace(F, n)[p] + (ll \div 8) * g2_film4(F, n)[p]]

Add(F, G, n) == [p \in Cells(n) |-> F[p] + G[p]]

\* an update in place: the input snapshot is overwritten as well
WriteSnapshotInPlace(h, k, new) == [h EXCEPT ![k] = new, ![k - 1] = new]

\* film[i,:,:] = <new>: only snapshot k of the history array is written
WriteSnapshot(h, k, new) == [h EXCEPT ![k] = new]

\* film = np.zeros((T,L,L)); film[0,:,:] = default_rng(seed_init).uniform(...)
NewFilm(n, t, f0) == [k \in 0 .. t - 1 |-> IF k = 0 THEN f0 ELSE Zero(n)]

(***************************************************************************)
(* Starting layers: what default_rng(seed=seed_init).uniform(0,            *)
(* max_starting_height, size=(L,L)) may yield, cut down to a base level    *)
(* with at most b cells raised above it.                                   *)
(***************************************************************************)
RECURSIVE StackAt(_, _, _, _)
StackAt(pos, hs, p, k) ==
    IF k = 0 THEN 0
    ELSE (IF pos[k] = p THEN hs[k] ELSE 0) + StackAt(pos, hs, p, k - 1)

Fields(n, b) ==
    {[p \in Cells(n) |-> base + StackAt(pos, hs, p, b)] :
        base \in BaseSet, pos \in [1 .. b -> Cells(n)], hs \in [1 .. b -> BumpSet]}

(***************************************************************************)
(* The notebook before any simulation cell has run: the first cell has set *)
(* the parameters and drawn the two seeds.  rngField is the layer the      *)
(* generator seeded with seed_init yields; it is the same in every cell,   *)
(* because every cell builds a fresh generator from the same seed.         *)
(***************************************************************************)
NoArray == <<>>

InitParams ==
    /\ L \in 2 .. MaxL
    /\ T \in 2 .. MaxT
    /\ v \in VSet
    /\ l \in LambdaSet

\* no cell of the Monte Carlo notebook has run
InitMonteCarlo ==
    /\ samples = 0
    /\ all_rolls = NoArray
    /\ rerolled = NoArray
    /\ s = NoArray
    /\ results = NoArray
    /\ particle_position = NoArray
    /\ particle_velocity = NoArray
    /\ charge = NoArray
    /\ executions = 0

InitIdle ==
    /\ InitMonteCarlo
    /\ cell = "none"
    /\ i = 0
    /\ film = NoArray
    /\ noise = NoArray
    /\ choice = NoArray
    /\ prevFilm = NoArray

Init ==
    /\ InitParams
    /\ rngField \in Fields(L, MaxBumps)
    /\ rngNoise = NoArray
    /\ rngChoice = NoArray
    /\ InitIdle

\* the heights of F are within the numeric range of the model (the squared
\* gradient of larger heights does not fit TLC's 32-bit integers)
InRange(F, n) == \A p \in Cells(n) : F[p] <= MaxAbsHeight /\ -F[p] <= MaxAbsHeight

FilmCells == {"ew", "kpz", "ewn", "kpzn"}

\* a cell can be started when no other cell is half way (cells run to completion)
Idle == cell \in {"none", "choice"} \/ (cell \in FilmCells /\ i = T)

(***************************************************************************)
(* Cell diagnostic-tuesday: Edwards-Wilkinson without noise.               *)
(***************************************************************************)
StartEW ==
    /\ Idle
    /\ cell' = "ew"
    /\ film' = NewFilm(L, T, rngField)
    /\ i' = 1
    /\ UNCHANGED <<params, monteCarlo, noise, choice>>

StepEW ==
    /\ cell = "ew"
    /\ i < T
    /\ InRange(film[i - 1], L)
    /\ film' = WriteSnapshot(film, i, Add(film[i - 1], d_film_EW(film[i - 1], L, v), L))
    /\ i' = i + 1
    /\ UNCHANGED <<params, monteCarlo, cell, noise, choice>>

(***************************************************************************)
(* Cell clinical-prior: Kardar-Parisi-Zhang without noise.                 *)
(***************************************************************************)
StartKPZ ==
    /\ Idle
    /\ cell' = "kpz"
    /\ film' = NewFilm(L, T, rngField)
    /\ i' = 1
    /\ UNCHANGED <<params, monteCarlo, noise, choice>>

StepKPZ ==
    /\ cell = "kpz"
    /\ i < T
    /\ InRange(film[i - 1], L)
    /\ film' = WriteSnapshot(film, i, Add(film[i - 1], d_film_KPZ(film[i - 1], L, v, l), L))
    /\ i' = i + 1
    /\ UNCHANGED <<params, monteCarlo, cell, noise, choice>>

(***************************************************************************)
(* The bounded-choice noise of cells collectible-bearing and               *)
(* removed-nothing:                                                        *)
(*     noise = -np.ones((T,L,L)); noise[:,L//2:,:] = 1                     *)
(*     shuffler.shuffle(noise[1:,:,:].flat)                                *)
(* Generator.shuffle of a flat iterator swaps single entries (Fisher-      *)
(* Yates) over the whole flattened block noise[1:], so the outcome is a    *)
(* rearrangement of the (T-1)*L*L entries of the block: entries move       *)
(* between slices.  Slice 0 is not part of the block.                      *)
(***************************************************************************)
NoiseValues == {-1, 1}

\* rows L//2+1.. are 1
BuiltSliceOffByOne(n) == [p \in Cells(n) |-> IF p[1] > n \div 2 THEN 1 ELSE -1]

\* one slice of noise before the shuffle: rows L//2.. are 1, the others -1
BuiltSlice(n) == [p \in Cells(n) |-> IF p[1] >= n \div 2 THEN 1 ELSE -1]

BuiltNoise(n, t) == [k \in 0 .. t - 1 |-> BuiltSlice(n)]

\* number of entries of slice F equal to x
RECURSIVE CountUpTo(_, _, _, _)
CountUpTo(F, n, x, k) ==
    IF k = 0 THEN 0
    ELSE (IF F[<<(k - 1) \div n, (k - 1) % n>>] = x THEN 1 ELSE 0)
         + CountUpTo(F, n, x, k - 1)

Count(F, n, x) == CountUpTo(F, n, x, n * n)

\* number of entries equal to x in slices lo..hi of a T x L x L array
RECURSIVE BlockCount(_, _, _, _, _)
BlockCount(A, n, x, lo, hi) ==
    IF hi < lo THEN 0 ELSE Count(A[hi], n, x) + BlockCount(A, n, x, lo, hi - 1)

RECURSIVE BlockMass(_, _, _, _)
BlockMass(A, n, lo, hi) ==
    IF hi < lo THEN 0 ELSE Mass(A[hi], n) + BlockMass(A, n, lo, hi - 1)

\* the outcomes of shuffling the flattened block noise[1:,:,:]
ShuffledBlocks(n, t) ==
    {B \in [1 .. t - 1 -> [Cells(n) -> NoiseValues]] :
        \A x \in NoiseValues :
            BlockCount(B, n, x, 1, t - 1) = BlockCount(BuiltNoise(n, t), n, x, 1, t - 1)}

\* the noise array after the shuffle: slice 0 as built, the block as shuffled
NewNoise(n, t, block) ==
    [k \in 0 .. t - 1 |-> IF k = 0 THEN BuiltNoise(n, t)[0] ELSE block[k]]

InitNoise ==
    /\ InitParams
    /\ (T - 1) * L * L <= MaxNoiseLen
    /\ rngField \in Fields(L, 1)
    /\ rngNoise \in ShuffledBlocks(L, T)
    /\ rngChoice = NoArray
    /\ InitIdle

(***************************************************************************)
(* Cell collectible-bearing: Edwards-Wilkinson with noise.                 *)
(***************************************************************************)
StartEWNoise ==
    /\ Idle
    /\ cell' = "ewn"
    /\ film' = NewFilm(L, T, rngField)
    /\ noise' = NewNoise(L, T, rngNoise)
    /\ i' = 1
    /\ UNCHANGED <<params, monteCarlo, choice>>

\* every step adds slice 1 of the noise
StepEWNoiseSameSlice ==
    /\ cell = "ewn"
    /\ i < T
    /\ InRange(film[i - 1], L)
    /\ film' = WriteSnapshot(film, i,
                   Add(film[i - 1], Add(d_film_EW(film[i - 1], L, v), noise[1], L), L))
    /\ i' = i + 1
    /\ UNCHANGED <<params, monteCarlo, cell, noise, choice>>

StepEWNoise ==
    /\ cell = "ewn"
    /\ i < T
    /\ InRange(film[i - 1], L)
    /\ film' = WriteSnapshot(film, i,
                   Add(film[i - 1], Add(d_film_EW(film[i - 1], L, v), noise[i], L), L))
    /\ i' = i + 1
    /\ UNCHANGED <<params, monteCarlo, cell, noise, choice>>

(***************************************************************************)
(* Cell removed-nothing: Kardar-Parisi-Zhang with noise.                   *)
(***************************************************************************)
\* the starting layer is not drawn again from seed_init: a run after the first
\* continues from the last snapshot of the run before it
StartKPZNoiseCarryOver ==
    /\ Idle
    /\ cell' = "kpzn"
    /\ film' = NewFilm(L, T, IF film = NoArray THEN rngField ELSE film[T - 1])
    /\ noise' = NewNoise(L, T, rngNoise)
    /\ i' = 1
    /\ UNCHANGED <<params, monteCarlo, choice>>

StartKPZNoise ==
    /\ Idle
    /\ cell' = "kpzn"
    /\ film' = NewFilm(L, T, rngField)
    /\ noise' = NewNoise(L, T, rngNoise)
    /\ i' = 1
    /\ UNCHANGED <<params, monteCarlo, choice>>

\* for i in range(1,T-1): the last snapshot is left out
StepKPZNoiseStopsEarly ==
    /\ cell = "kpzn"
    /\ i < T - 1
    /\ InRange(film[i - 1], L)
    /\ film' = WriteSnapshot(film, i,
                   Add(film[i - 1], Add(d_film_KPZ(film[i - 1], L, v, l), noise[i], L), L))
    /\ i' = i + 1
    /\ UNCHANGED <<params, monteCarlo, cell, noise, choice>>

StepKPZNoise ==
    /\ cell = "kpzn"
    /\ i < T
    /\ InRange(film[i - 1], L)
    /\ film' = WriteSnapshot(film, i,
                   Add(film[i - 1], Add(d_film_KPZ(film[i - 1], L, v, l), noise[i], L), L))
    /\ i' = i + 1
    /\ UNCHANGED <<params, monteCarlo, cell, noise, choice>>

\* history: the film of the run just completed, kept when the same cell is run again
Rerun == prevFilm' = IF cell' = cell /\ i = T THEN film ELSE NoArray

NextNoise ==
    \/ StartEW /\ Rerun
    \/ StepEW /\ UNCHANGED prevFilm
    \/ StartKPZ /\ Rerun
    \/ StepKPZ /\ UNCHANGED prevFilm
    \/ StartEWNoise /\ Rerun
    \/ StepEWNoise /\ UNCHANGED prevFilm
    \/ StartKPZNoise /\ Rerun
    \/ StepKPZNoise /\ UNCHANGED prevFilm

SpecNoise == InitNoise /\ [][NextNoise]_vars

\* a cell that has been started runs its for loop to the end: an iteration
\* that can be taken is taken (which cell is started next, and when, is up to
\* the user of the notebook)
LoopStep == (StepEW \/ StepKPZ \/ StepEWNoise \/ StepKPZNoise) /\ UNCHANGED prevFilm

SpecRun == SpecNoise /\ WF_vars(LoopStep)

(***************************************************************************)
(* Cell noble-question: the 2-D bounded-choice array.                      *)
(*     choice = -np.ones((L,L)); choice[L//2:,:] = 1                       *)
(*     shuffler.shuffle(choice.flat)                                       *)
(* The cell is modelled in two steps so that the array is visible before   *)
(* and after the shuffle.  rngChoice is the rearrangement the generator    *)
(* seeded with seed_random applies to an array of L*L entries.             *)
(***************************************************************************)
ShuffledSlices(n) ==
    {B \in [Cells(n) -> NoiseValues] :
        \A x \in NoiseValues : Count(B, n, x) = Count(BuiltSlice(n), n, x)}

InitChoice ==
    /\ L \in {n \in 1 .. MaxL : n * n <= MaxChoiceLen}
    /\ T = MaxT
    /\ v \in VSet
    /\ l = 0
    /\ rngField = NoArray
    /\ rngNoise = NoArray
    /\ rngChoice \in ShuffledSlices(L)
    /\ InitIdle

BuildChoice ==
    /\ Idle
    /\ cell' = "choice_built"
    /\ choice' = BuiltSlice(L)
    /\ UNCHANGED <<params, monteCarlo, i, film, noise, prevFilm>>

ShuffleChoice ==
    /\ cell = "choice_built"
    /\ cell' = "choice"
    /\ choice' = rngChoice
    /\ UNCHANGED <<params, monteCarlo, i, film, noise, prevFilm>>

NextChoice == BuildChoice \/ ShuffleChoice

SpecChoice == InitChoice /\ [][NextChoice]_vars

(***************************************************************************)
(* The loop body of cell collectible-bearing as the stepper of its         *)
(* operands:                                                               *)
(*     d_film = v*laplace(film[i-1,:,:]) + noise[i,:,:]                    *)
(*     film[i,:,:] = film[i-1,:,:] + d_film                                *)
(* applied to a field of any shape R x C and a noise slice of any shape,   *)
(* under numpy's rules: laplace accepts any shape, + broadcasts (two       *)
(* lengths agree when they are equal or one of them is 1) and raises       *)
(* ValueError otherwise, and the assignment raises ValueError, before      *)
(* anything is written, when the value cannot be broadcast to the shape    *)
(* of the slice.  The notebook's own cells build both operands L x L; the  *)
(* code carries no check of its own.                                       *)
(***************************************************************************)
StepMaxDim == 2

CellsRC(r, c) == (0 .. r - 1) \X (0 .. c - 1)

Rows(A) == Cardinality({p[1] : p \in DOMAIN A})

Cols(A) == Cardinality({p[2] : p \in DOMAIN A})

laplaceRC(F) ==
    [p \in DOMAIN F |->
        F[<<Reflect(p[1] + 1, Rows(F)), p[2]>>] + F[<<Reflect(p[1] - 1, Rows(F)), p[2]>>]
      + F[<<p[1], Reflect(p[2] + 1, Cols(F))>>] + F[<<p[1], Reflect(p[2] - 1, Cols(F))>>]
      - 4 * F[p]]

Max(a, b) == IF a >= b THEN a ELSE b

Broadcastable(a, b) == a = b \/ a = 1 \/ b = 1

CanAdd(A, B) == Broadcastable(Rows(A), Rows(B)) /\ Broadcastable(Cols(A), Cols(B))

\* the entry of A that broadcasting reads at position p
BroadcastAt(A, p) ==
    A[<<IF Rows(A) = 1 THEN 0 ELSE p[1], IF Cols(A) = 1 THEN 0 ELSE p[2]>>]

BroadcastAdd(A, B) ==
    [p \in CellsRC(Max(Rows(A), Rows(B)), Max(Cols(A), Cols(B))) |->
        BroadcastAt(A, p) + BroadcastAt(B, p)]

Scale(vv, A) == [p \in DOMAIN A |-> vv * A[p]]

\* the operands are accepted: both additions broadcast and the sum has the
\* shape of the slice film[i,:,:] it is assigned to
StepAccepted(F, N) ==
    /\ CanAdd(F, N)
    /\ Rows(BroadcastAdd(F, N)) = Rows(F)
    /\ Cols(BroadcastAdd(F, N)) = Cols(F)

StepValue(F, N, vv) == BroadcastAdd(F, BroadcastAdd(Scale(vv, laplaceRC(F)), N))

InitStep ==
    /\ T = 2
    /\ v \in VSet
    /\ l = 0
    /\ \E r \in 1 .. StepMaxDim, c \in 1 .. StepMaxDim :
          /\ L = r
          /\ rngField \in [CellsRC(r, c) -> {0, 1}]
          /\ film = [k \in 0 .. T - 1 |->
                        IF k = 0 THEN rngField ELSE [p \in CellsRC(r, c) |-> 0]]
    /\ \E r \in 1 .. StepMaxDim, c \in 1 .. StepMaxDim :
          /\ rngNoise \in [1 .. T - 1 -> [CellsRC(r, c) -> NoiseValues]]
          /\ noise = [k \in 0 .. T - 1 |->
                         IF k = 0 THEN [p \in CellsRC(r, c) |-> 1] ELSE rngNoise[k]]
    /\ rngChoice = NoArray
    /\ InitMonteCarlo
    /\ cell = "step"
    /\ i = 1
    /\ choice = NoArray
    /\ prevFilm = NoArray

StepWrites ==
    /\ cell = "step"
    /\ i < T
    /\ StepAccepted(film[i - 1], noise[i])
    /\ film' = WriteSnapshot(film, i, StepValue(film[i - 1], noise[i], v))
    /\ i' = i + 1
    /\ UNCHANGED <<params, monteCarlo, cell, noise, choice, prevFilm>>

StepRaises ==
    /\ cell = "step"
    /\ i < T
    /\ ~StepAccepted(film[i - 1], noise[i])
    /\ cell' = "ValueError"
    /\ UNCHANGED <<params, monteCarlo, i, film, noise, choice, prevFilm>>

NextStep == StepWrites \/ StepRaises

SpecStep == InitStep /\ [][NextStep]_vars

(***************************************************************************)
(* Monte Carlo notebook, the dice cells: roll four dice, reroll any ones,   *)
(* take the sum of the three largest.  Arrays are indexed from 0 as in the  *)
(* code; results is the Python list of result arrays.                       *)
(***************************************************************************)
\* the names of the surface-growth notebook other than cell
filmNotebook == <<params, i, film, noise, choice, prevFilm>>

\* rng.integers(1, 6, endpoint=True) yields 1..6; the model keeps the face
\* that is rerolled and the largest one
DieFaces == {1, 6}

\* samples = 1000 of cell nonprofit-physiology, scaled down
SingleSamples == 1

\* sample_nums = [100, 10000, 1000000, 10000000] of cell urban-litigation,
\* scaled down (every entry of the list is even, and so is every entry here)
sample_nums == <<2, 2>>

\* len(a)
Size(a) == Cardinality(DOMAIN a)

\* a[lo:hi]
Slice(a, lo, hi) == [j \in 0 .. hi - lo - 1 |-> a[lo + j]]

Min4(a, b, c, d) ==
    LET m(x, y) == IF x < y THEN x ELSE y IN m(m(a, b), m(c, d))

\* the outcomes of rng.integers(1, 6, endpoint=True, size=total_rolls)
Rolls(total_rolls) == [0 .. total_rolls - 1 -> DieFaces]

\* rerolled: the first half of the rolls, each 1 replaced by the roll at the
\* same place of the second half
Reroll(rolls, total_rolls) ==
    [j \in 0 .. total_rolls \div 2 - 1 |->
        IF rolls[j] = 1 THEN rolls[j + total_rolls \div 2] ELSE rolls[j]]

\* d1..d4 are the first four eighths of total_rolls entries of rerolled;
\* np.sum(stack, axis=0) - np.min(stack, axis=0) has one entry per column
SumMinusMin(rr, total_rolls) ==
    LET d1 == Slice(rr, 0, total_rolls \div 8)
        d2 == Slice(rr, total_rolls \div 8, (2 * total_rolls) \div 8)
        d3 == Slice(rr, (2 * total_rolls) \div 8, (3 * total_rolls) \div 8)
        d4 == Slice(rr, (3 * total_rolls) \div 8, (4 * total_rolls) \div 8)
    IN  [j \in DOMAIN d1 |->
            d1[j] + d2[j] + d3[j] + d4[j] - Min4(d1[j], d2[j], d3[j], d4[j])]

InitDice ==
    /\ L = 2 /\ T = 2 /\ v = 0 /\ l = 0
    /\ rngField = NoArray /\ rngNoise = NoArray /\ rngChoice = NoArray
    /\ InitIdle

\* no dice cell is half way
DiceIdle == cell = "compare" => Len(results) = Len(sample_nums)

\* cell nonprofit-physiology: total_rolls = samples*4*2
RunDice ==
    /\ DiceIdle
    /\ cell' = "dice"
    /\ samples' = SingleSamples
    /\ \E rolls \in Rolls(SingleSamples * 4 * 2) :
          /\ all_rolls' = rolls
          /\ rerolled' = Reroll(rolls, SingleSamples * 4 * 2)
          /\ s' = SumMinusMin(Reroll(rolls, SingleSamples * 4 * 2), SingleSamples * 4 * 2)
    /\ UNCHANGED <<results, particleState, filmNotebook>>

\* cell urban-litigation up to its loop: results = []
StartCompare ==
    /\ DiceIdle
    /\ cell' = "compare"
    /\ results' = <<>>
    /\ UNCHANGED <<samples, all_rolls, rerolled, s, particleState, filmNotebook>>

\* one iteration of 'for samples in sample_nums': total_rolls = samples*4
CompareIteration ==
    /\ cell = "compare"
    /\ Len(results) < Len(sample_nums)
    /\ samples' = sample_nums[Len(results) + 1]
    /\ \E rolls \in Rolls(sample_nums[Len(results) + 1] * 4) :
          /\ all_rolls' = rolls
          /\ rerolled' = Reroll(rolls, sample_nums[Len(results) + 1] * 4)
          /\ results' = Append(results,
                 SumMinusMin(Reroll(rolls, sample_nums[Len(results) + 1] * 4),
                             sample_nums[Len(results) + 1] * 4))
    /\ UNCHANGED <<cell, s, particleState, filmNotebook>>

NextDice == RunDice \/ StartCompare \/ CompareIteration

SpecDice == InitDice /\ [][NextDice]_vars

(***************************************************************************)
(* Monte Carlo notebook, the molecular dynamics cells: two charged          *)
(* particles in a square box.                                               *)
(*                                                                          *)
(* Positions are kept in hundredths and velocities in tenths, so that       *)
(* position += velocity*time_step (time_step = 0.1) adds the velocity to    *)
(* the position; charges are kept in halves.  A float64 is <<x>> or NaN:    *)
(* the quotient 0/0 of two numpy floats is nan (a RuntimeWarning, not an    *)
(* exception), arithmetic on nan gives nan and every comparison with nan    *)
(* is False.                                                                *)
(***************************************************************************)
side_length == 8
n_particles == 2
PosUnit == 100
MaxExecutions == 4

NaN == <<>>
Num(x) == <<x>>
IsNaN(a) == a = NaN
AddF(a, b) == IF IsNaN(a) \/ IsNaN(b) THEN NaN ELSE <<a[1] + b[1]>>
SubF(a, b) == IF IsNaN(a) \/ IsNaN(b) THEN NaN ELSE <<a[1] - b[1]>>
NegF(a) == IF IsNaN(a) THEN NaN ELSE <<-a[1]>>
LessF(a, x) == ~IsNaN(a) /\ a[1] < x
GreaterF(a, x) == ~IsNaN(a) /\ a[1] > x
ModF(a, m) == IF IsNaN(a) THEN NaN ELSE <<a[1] % m>>

\* the walls at 0+1 and side_length-1
LowWall == 1 * PosUnit
HighWall == (side_length - 1) * PosUnit

\* the position update of one particle: the Euler step, the four wall tests in
\* the order of the code, the modulo
Move(pos, vel) ==
    LET x0 == AddF(pos[1], vel[1])
        y0 == AddF(pos[2], vel[2])
        x1 == IF LessF(x0, LowWall) THEN Num(LowWall) ELSE x0
        vx1 == IF LessF(x0, LowWall) THEN NegF(vel[1]) ELSE vel[1]
        y1 == IF LessF(y0, LowWall) THEN Num(LowWall) ELSE y0
        vy1 == IF LessF(y0, LowWall) THEN NegF(vel[2]) ELSE vel[2]
        x2 == IF GreaterF(x1, HighWall) THEN Num(HighWall) ELSE x1
        vx2 == IF GreaterF(x1, HighWall) THEN NegF(vx1) ELSE vx1
        y2 == IF GreaterF(y1, HighWall) THEN Num(HighWall) ELSE y1
        vy2 == IF GreaterF(y1, HighWall) THEN NegF(vy1) ELSE vy1
    IN  [pos |-> <<ModF(x2, side_length * PosUnit), ModF(y2, side_length * PosUnit)>>,
         vel |-> <<vx2, vy2>>]

\* f*time_step of calc_force in tenths: 2*|c1*c2|*0.1*10 with the charges in halves
calc_force(ch, id1, id2) ==
    (IF ch[id1] * ch[id2] < 0 THEN -(ch[id1] * ch[id2]) ELSE ch[id1] * ch[id2]) \div 2

Abs(x) == IF x < 0 THEN -x ELSE x

\* floor of the square root of x > 0 (Newton's iteration from r)
RECURSIVE ISqrtFrom(_, _)
ISqrtFrom(x, r) ==
    LET t == (r + x \div r) \div 2 IN IF t >= r THEN r ELSE ISqrtFrom(x, t)

\* component k of f * (p2 - p1) / np.sqrt(np.sum((p2 - p1)**2)) * time_step:
\* nan when the two positions are equal (0/0) or one of them is nan; f or -f
\* or 0 when the particles are side by side along an axis; rounded to the
\* lattice otherwise
Pull(f, d, k) ==
    IF IsNaN(d[1]) \/ IsNaN(d[2]) THEN NaN
    ELSE IF d[1][1] = 0 /\ d[2][1] = 0 THEN NaN
    ELSE IF d[k][1] = 0 THEN Num(0)
    ELSE IF d[3 - k][1] = 0 THEN Num(IF d[k][1] < 0 THEN -f ELSE f)
    ELSE LET n2 == d[1][1] * d[1][1] + d[2][1] * d[2][1]
             q == (f * Abs(d[k][1])) \div ISqrtFrom(n2, n2)
         IN  Num(IF d[k][1] < 0 THEN -q ELSE q)

\* the velocity of particle p1 after the force of the other particle (n = 2)
Accelerate(P, V, ch, p1) ==
    LET p2 == CHOOSE q \in 0 .. n_particles - 1 : q # p1
        d == <<SubF(P[p2][1], P[p1][1]), SubF(P[p2][2], P[p1][2])>>
        f == calc_force(ch, p1, p2)
        alike == (ch[p1] < 0 /\ ch[p2] < 0) \/ (ch[p1] > 0 /\ ch[p2] > 0)
    IN  [k \in 1 .. 2 |->
            IF alike THEN SubF(V[p1][k], Pull(f, d, k))
                     ELSE AddF(V[p1][k], Pull(f, d, k))]

\* starting values: positions random()*(side_length-2)+1, velocities
\* random()*2-1 and charges random()*2-1, cut down to two particles side by
\* side (same y, same y velocity) with charges -1 and 1/2
StartX == {102, 105, 698}
StartY == {104, 400}
StartVX == {-10, 9}
StartVY == {-10, 3}
StartCharge == {<<-2, -2>>, <<-2, 1>>, <<1, -2>>}

InitParticles ==
    /\ L = 2 /\ T = 2 /\ v = 0 /\ l = 0
    /\ rngField = NoArray /\ rngNoise = NoArray /\ rngChoice = NoArray
    /\ InitIdle

\* cell classical-greek
SetUpParticles ==
    /\ cell' = "classical-greek"
    /\ \E x \in [0 .. n_particles - 1 -> StartX], y \in StartY,
          vx \in [0 .. n_particles - 1 -> StartVX], vy \in StartVY :
          /\ x[0] # x[1]
          /\ particle_position' = [p \in 0 .. n_particles - 1 |-> <<Num(x[p]), Num(y)>>]
          /\ particle_velocity' = [p \in 0 .. n_particles - 1 |-> <<Num(vx[p]), Num(vy)>>]
    /\ \E ch \in StartCharge : charge' = [p \in 0 .. n_particles - 1 |-> ch[p + 1]]
    /\ executions' = 0
    /\ UNCHANGED <<diceState, filmNotebook>>

\* cell b18fffac: advance by one time step
Advance ==
    /\ particle_position # NoArray
    /\ executions < MaxExecutions
    /\ cell' = "advance"
    /\ LET moved == [p \in 0 .. n_particles - 1 |->
                        Move(particle_position[p], particle_velocity[p])]
           P == [p \in 0 .. n_particles - 1 |-> moved[p].pos]
           V == [p \in 0 .. n_particles - 1 |-> moved[p].vel]
       IN  /\ particle_position' = P
           /\ particle_velocity' =
                  [p \in 0 .. n_particles - 1 |->
                      <<Accelerate(P, V, charge, p)[1], Accelerate(P, V, charge, p)[2]>>]
    /\ executions' = executions + 1
    /\ UNCHANGED <<charge, diceState, filmNotebook>>

NextParticles == SetUpParticles \/ Advance

SpecParticles == InitParticles /\ [][NextParticles]_vars

Next ==
    \/ StartEW /\ UNCHANGED prevFilm
    \/ StepEW /\ UNCHANGED prevFilm
    \/ StartKPZ /\ UNCHANGED prevFilm
    \/ StepKPZ /\ UNCHANGED prevFilm

Spec == Init /\ [][Next]_vars

(***************************************************************************)
(* Properties.                                                             *)
(***************************************************************************)
\* the snapshots written so far in the running (or completed) cell
Written == 0 .. i - 1

IsFlat(F, n) == \A p \in Cells(n), q \in Cells(n) : F[p] = F[q]

\* C1: in the Edwards-Wilkinson run without noise one step preserves the
\* total mass, sum(F + v*laplace(F)) = sum(F), and so every snapshot has the
\* mass of the starting layer.
C1_MassConservedEW ==
    cell = "ew" =>
        \A k \in Written :
            /\ Mass(film[k], L) = Mass(film[0], L)
            /\ Mass(Add(film[k], d_film_EW(film[k], L, v), L), L) = Mass(film[k], L)

C1_Witness ==
    /\ cell = "ew" /\ i = T /\ T >= 3 /\ v # 0
    /\ film[1] # film[0] /\ film[2] # film[1]

\* the five-point stencil at cell p with the neighbour indices wrapped around
PeriodicStencil(F, n, p) ==
      F[<<(p[1] + 1) % n, p[2]>>] + F[<<(p[1] + n - 1) % n, p[2]>>]
    + F[<<p[1], (p[2] + 1) % n>>] + F[<<p[1], (p[2] + n - 1) % n>>] - 4 * F[p]

Clamp(k, n) == IF k < 0 THEN 0 ELSE IF k > n - 1 THEN n - 1 ELSE k

\* the five-point stencil at cell p with a neighbour outside the grid replaced
\* by the border cell itself
EdgeStencil(F, n, p) ==
      F[<<Clamp(p[1] + 1, n), p[2]>>] + F[<<Clamp(p[1] - 1, n), p[2]>>]
    + F[<<p[1], Clamp(p[2] + 1, n)>>] + F[<<p[1], Clamp(p[2] - 1, n)>>] - 4 * F[p]

Interior(n) == {p \in Cells(n) : p[1] > 0 /\ p[1] < n - 1 /\ p[2] > 0 /\ p[2] < n - 1}

\* C4 as stated: the Laplacian the stepper applies is the five-point stencil
\* with periodic wraparound at every cell, border cells included.
C4_PeriodicEverywhere ==
    cell = "ew" =>
        \A k \in Written \ {0} : \A p \in Cells(L) :
            film[k][p] - film[k - 1][p] = v * PeriodicStencil(film[k - 1], L, p)

\* C4 amended: the Laplacian the stepper applies is the five-point stencil in
\* which a neighbour outside the grid is the border cell itself (scipy's
\* default mode 'reflect'); it is the wrapped stencil at interior cells only.
C4_ReflectStencil ==
    cell = "ew" =>
        \A k \in Written \ {0} :
            /\ \A p \in Cells(L) :
                  film[k][p] - film[k - 1][p] = v * EdgeStencil(film[k - 1], L, p)
            /\ \A p \in Interior(L) :
                  film[k][p] - film[k - 1][p] = v * PeriodicStencil(film[k - 1], L, p)

C4_Witness ==
    /\ cell = "ew" /\ i >= 2 /\ v # 0 /\ L >= 3
    /\ \E p \in Cells(L) \ Interior(L) :
          EdgeStencil(film[0], L, p) # PeriodicStencil(film[0], L, p)
    /\ \E p \in Interior(L) : EdgeStencil(film[0], L, p) # 0

\* C10: a flat field has Laplacian 0 in every cell and is a fixed point of the
\* Edwards-Wilkinson step without noise, for every grid size (2 x 2 included)
\* and every level, after any number of steps.
C10_FlatFixedPoint ==
    (cell = "ew" /\ IsFlat(film[0], L)) =>
        /\ \A p \in Cells(L) : laplace(film[0], L)[p] = 0
        /\ \A k \in Written : film[k] = film[0]

C10_Witness ==
    /\ cell = "ew" /\ i = T /\ T >= 3 /\ L = 2 /\ v # 0
    /\ IsFlat(film[0], L) /\ film[0][<<0, 0>>] = 5

\* C2 as stated: in the Edwards-Wilkinson run with bounded-choice noise and
\* even L the total mass does not change during growth: every snapshot, not
\* only the last one, has the mass of the starting layer.
C2_MassConservedEWNoise ==
    (cell = "ewn" /\ L % 2 = 0) =>
        \A k \in Written : Mass(film[k], L) = Mass(film[0], L)

\* C3 as stated: for even L every noise slice handed to the stepper,
\* noise[k] for k in 1..T-1, sums to exactly 0 after the shuffle.
C3_EverySliceSumsToZero ==
    (cell \in {"ewn", "kpzn"} /\ L % 2 = 0) =>
        \A k \in 1 .. T - 1 : Mass(noise[k], L) = 0

\* twice the partial derivative of F along axis at cell p: the central
\* difference in the interior, the one-sided difference at the two ends
TwicePartial(F, n, p, axis) ==
    LET q == IF axis = 1 THEN p[1] ELSE p[2]
        at(d) == IF axis = 1 THEN F[<<p[1] + d, p[2]>>] ELSE F[<<p[1], p[2] + d>>]
    IN  IF q = 0 THEN 2 * (at(1) - at(0))
        ELSE IF q = n - 1 THEN 2 * (at(0) - at(-1))
        ELSE at(1) - at(-1)

\* the noise added at step k in the running cell (none in the cells without noise)
NoiseAt(k, p) == IF cell = "kpzn" THEN noise[k][p] ELSE 0

C7_StepWritesOnlyItsSnapshot ==
    [][(cell' = cell /\ i' = i + 1) =>
          /\ \A k \in 0 .. T - 1 : k # i => film'[k] = film[k]
          /\ noise' = noise
          /\ params' = params]_vars

C7_Witness ==
    /\ cell = "ewn" /\ i = T /\ T >= 3 /\ v # 0
    /\ film[1] # film[0] /\ film[2] # film[1]
    /\ film[0] = rngField /\ noise = NewNoise(L, T, rngNoise)

C9_ChoiceBalanced ==
    (cell \in {"choice_built", "choice"} /\ L % 2 = 0) =>
        /\ \A p \in Cells(L) : choice[p] \in {-1, 1}
        /\ Count(choice, L, -1) = Count(choice, L, 1)
        /\ 2 * Count(choice, L, 1) = L * L
        /\ Mass(choice, L) = 0

C9_Witness ==
    /\ cell = "choice" /\ L = 4
    /\ choice # BuiltSlice(L)
    /\ choice[<<0, 0>>] = 1 /\ choice[<<3, 3>>] = -1

RaisedAt(n, p) == [q \in Cells(n) |-> IF q = p THEN 10 ELSE 5]

\* the cells of the grid next to p along an axis
StencilNeighbours(n, p) ==
    {q \in Cells(n) :
        \/ q[2] = p[2] /\ (q[1] = p[1] + 1 \/ q[1] = p[1] - 1)
        \/ q[1] = p[1] /\ (q[2] = p[2] + 1 \/ q[2] = p[2] - 1)}

C12_NoiseBlockCancels ==
    (cell = "ewn" /\ L % 2 = 0) =>
        /\ noise[0] = BuiltSlice(L)
        /\ BlockMass(noise, L, 1, T - 1) = 0
        /\ \A k \in Written \ {0} :
              /\ film[k] = Add(film[k - 1],
                               Add(d_film_EW(film[k - 1], L, v), noise[k], L), L)
              /\ Mass(film[k], L) = Mass(film[0], L) + BlockMass(noise, L, 1, k)
        /\ i = T => Mass(film[T - 1], L) = Mass(film[0], L)

C12_Witness ==
    /\ cell = "ewn" /\ L % 2 = 0 /\ T = 3 /\ i = T /\ v # 0
    /\ Mass(noise[1], L) # 0 /\ noise[2] # noise[1]
    /\ Mass(film[1], L) # Mass(film[0], L)
    /\ Mass(film[2], L) = Mass(film[0], L)

\* 4 * (gx^2 + gy^2) of F, with gx, gy the finite-difference partial derivatives
SquaredSlope4(F, n) ==
    [p \in Cells(n) |->
        TwicePartial(F, n, p, 1) * TwicePartial(F, n, p, 1)
      + TwicePartial(F, n, p, 2) * TwicePartial(F, n, p, 2)]

IterationOf(c, F, N) ==
    Add(F, Add(IF c \in {"ew", "ewn"} THEN d_film_EW(F, L, v)
                                      ELSE d_film_KPZ(F, L, v, l),
               IF c \in {"ewn", "kpzn"} THEN N ELSE Zero(L), L), L)

\* during and after a run: T snapshots, film[0] the starting layer, the
\* snapshots from i on not written yet
RunShape ==
    /\ i \in 1 .. T
    /\ DOMAIN film = 0 .. T - 1
    /\ film[0] = rngField
    /\ \A k \in i .. T - 1 : film[k] = Zero(L)

\* a change of the loop variable or of the history array is either the start
\* of a run or iteration i of the running cell, which moves i to i + 1
StartOrNextIteration ==
    (i' # i \/ film' # film) =>
        \/ i' = 1 /\ film' = NewFilm(L, T, rngField)
        \/ /\ cell' = cell /\ i \in 1 .. T - 1 /\ i' = i + 1
           /\ film'[i] = IterationOf(cell, film[i - 1],
                                     IF cell \in {"ewn", "kpzn"} THEN noise[i] ELSE Zero(L))
           /\ \A k \in 0 .. T - 1 : k # i => film'[k] = film[k]

\* C14: every run of a simulation cell takes the iterations i = 1, 2, ...,
\* T-1 in this order and then stops: iteration i computes film[i] from
\* film[i-1] alone, after film[i-1] has been written, every film[i] with
\* i >= 1 is written by iteration i and by no other, and a run that has been
\* started reaches its end i = T with T snapshots, film[0] the starting layer.
C14_RunsInOrderToTheEnd ==
    /\ [](cell \in FilmCells => RunShape)
    /\ [][StartOrNextIteration]_vars
    /\ (cell \in FilmCells /\ i < T) ~> (cell \in FilmCells /\ i = T)

C14_Witness ==
    /\ cell = "kpzn" /\ T = 3 /\ i = T /\ v # 0 /\ l # 0
    /\ DOMAIN film = 0 .. T - 1 /\ film[0] = rngField
    /\ film[1] # film[0] /\ film[2] # film[1] /\ film[2] # Zero(L)

\* the four dice of sample j in a result of n sums computed from rolls: die k
\* is first roll number k*n + j, replaced by its reroll when it shows 1
DieOf(rolls, n, k, j) ==
    IF rolls[k * n + j] = 1 THEN rolls[k * n + j + 4 * n] ELSE rolls[k * n + j]

\* res holds n sums, each the total of its four dice minus their smallest,
\* between 3 and 18
IsResultOf(res, rolls, n) ==
    /\ Size(res) = n
    /\ Size(rolls) = 8 * n
    /\ \A j \in 0 .. n - 1 :
          /\ res[j] = DieOf(rolls, n, 0, j) + DieOf(rolls, n, 1, j)
                       + DieOf(rolls, n, 2, j) + DieOf(rolls, n, 3, j)
                       - Min4(DieOf(rolls, n, 0, j), DieOf(rolls, n, 1, j),
                              DieOf(rolls, n, 2, j), DieOf(rolls, n, 3, j))
          /\ res[j] \in 3 .. 18

\* C15 as stated: for every sample count n, the single run with samples and
\* every entry of sample_nums in the comparison, the result holds exactly n
\* sums, each the sum of the three largest of four distinct dice with the
\* ones rerolled once, between 3 and 18.
C15_ResultHasOneSumPerSample ==
    /\ cell = "dice" => IsResultOf(s, all_rolls, samples)
    /\ cell = "compare" =>
          /\ \A k \in 1 .. Len(results) : Size(results[k]) = sample_nums[k]
          /\ Len(results) >= 1 =>
                IsResultOf(results[Len(results)], all_rolls, samples)

\* a coordinate between the walls 1 and side_length-1
InBox(a) == ~IsNaN(a) /\ a[1] >= LowWall /\ a[1] <= HighWall

\* C16 as stated: after any number of executions of the time-step cell both
\* coordinates of every particle lie in [1, side_length-1] (a particle that
\* left the range having been put on the wall it crossed), and the modulo by
\* side_length leaves such a position as it is.
C16_ParticlesStayInTheBox ==
    cell = "advance" =>
        \A p \in 0 .. n_particles - 1 : \A k \in 1 .. 2 :
            /\ InBox(particle_position[p][k])
            /\ ModF(particle_position[p][k], side_length * PosUnit)
                  = particle_position[p][k]

====
